---- MODULE Spec2Model ----
(***************************************************************************)
(* Macro dashboard (src/macro_dashboard.py): one Streamlit script that     *)
(* reads a FRED credential, fetches CPIAUCSL, UNRATE and DFII10, brings    *)
(* them to a monthly index, joins them into a panel, optionally smooths a  *)
(* display copy, and renders KPI cards, charts and an Excel export.        *)
(*                                                                         *)
(* Numbers are exact rationals <<n, d>> (d > 0, lowest terms); the float   *)
(* NaN is <<0, 0>>.  A date is a day number: month m has the days          *)
(* m*DaysPerMonth .. m*DaysPerMonth + DaysPerMonth - 1, the first being    *)
(* the month start and the last the month end.  A DataFrame / Series with  *)
(* a date index is a sequence of [date, value] records in index order.     *)
(***************************************************************************)
EXTENDS Integers, Sequences, FiniteSets, TLC

VARIABLES
    pc,          \* position of the script in the current render pass
    secret,      \* st.secrets["FRED_API_KEY"]: "absent", "" or "key"
    api_key,     \* the module-level api_key
    smooth_ma,   \* the sidebar checkbox
    requests,    \* the requests.get calls of this pass, in order
    err,         \* the exception that ended the pass, "" when none
    ui,          \* the st.* elements emitted in this pass, in order
    cpi_idx, cpi_m, cpi_yoy, unrate, unrate_m, real10_daily, real10_m,
    panel, display_df, kpi, charts, xlsx,
    fn, arg, ret \* a single call of one helper: its name, argument and result

vars == <<pc, secret, api_key, smooth_ma, requests, err, ui,
          cpi_idx, cpi_m, cpi_yoy, unrate, unrate_m, real10_daily, real10_m,
          panel, display_df, kpi, charts, xlsx, fn, arg, ret>>

passVars == <<pc, secret, api_key, smooth_ma, requests, err, ui,
              cpi_idx, cpi_m, cpi_yoy, unrate, unrate_m, real10_daily, real10_m,
              panel, display_df, kpi, charts, xlsx>>

(***************************************************************************)
(* Bounds of the model.                                                    *)
(***************************************************************************)
DaysPerMonth == 2     \* days of a model month (first = start, last = end)
MaxCpiLen == 14       \* longest monthly series fetched or passed to a helper
MaxMissing == 2       \* most "." observations in a monthly series
GenMonths == 3        \* months spanned by an irregular series
MaxObs == 3           \* most observations of an irregular series
MaxShort == 2         \* longest UNRATE / DFII10 answer in a render pass

(***************************************************************************)
(* Program constants.                                                      *)
(***************************************************************************)
YoYPeriods == 12      \* pct_change(12)
RollWindow == 3       \* rolling(3)

(***************************************************************************)
(* Exact arithmetic with NaN.                                              *)
(***************************************************************************)
NaN == <<0, 0>>
IsNaN(x) == x[2] = 0
Abs(i) == IF i < 0 THEN -i ELSE i

RECURSIVE Gcd(_, _)
Gcd(a, b) == IF b = 0 THEN a ELSE Gcd(b, a % b)

Rat(n, d) ==
    IF d = 0 THEN NaN
    ELSE LET g == Gcd(Abs(n), Abs(d))
             s == IF d < 0 THEN -1 ELSE 1
         IN  <<(s * n) \div g, (s * d) \div g>>

Num(i) == <<i, 1>>
RAdd(x, y) == IF IsNaN(x) \/ IsNaN(y) THEN NaN
              ELSE Rat(x[1] * y[2] + y[1] * x[2], x[2] * y[2])
RSub(x, y) == IF IsNaN(x) \/ IsNaN(y) THEN NaN
              ELSE Rat(x[1] * y[2] - y[1] * x[2], x[2] * y[2])
RMul(x, y) == IF IsNaN(x) \/ IsNaN(y) THEN NaN
              ELSE Rat(x[1] * y[1], x[2] * y[2])
\* x / y; the observations of the model are positive, so y is never zero
RDiv(x, y) == IF IsNaN(x) \/ IsNaN(y) THEN NaN
              ELSE Rat(x[1] * y[2], x[2] * y[1])

(***************************************************************************)
(* Calendar.                                                               *)
(***************************************************************************)
MonthOf(d) == d \div DaysPerMonth
MonthStart(m) == m * DaysPerMonth
MonthEnd(m) == m * DaysPerMonth + (DaysPerMonth - 1)
IsMonthStart(d) == d = MonthStart(MonthOf(d))
IsMonthEnd(d) == d = MonthEnd(MonthOf(d))

(***************************************************************************)
(* Frames.                                                                 *)
(***************************************************************************)
Obs(d, v) == [date |-> d, value |-> v]
Dates(df) == {df[i].date : i \in 1..Len(df)}
Values(df) == [i \in 1..Len(df) |-> df[i].value]
IsSorted(df) == \A i \in 1..(Len(df) - 1) : df[i].date < df[i + 1].date

\* the value of df at date d, NaN when d is not in its index
At(df, d) ==
    IF d \in Dates(df)
    THEN (df[CHOOSE i \in 1..Len(df) : df[i].date = d]).value
    ELSE NaN

SetMin(S) == CHOOSE x \in S : \A y \in S : x <= y
SetMax(S) == CHOOSE x \in S : \A y \in S : y <= x

RECURSIVE SortedSeq(_)
SortedSeq(S) == IF S = {} THEN <<>>
                ELSE <<SetMin(S)>> \o SortedSeq(S \ {SetMin(S)})

(***************************************************************************)
(* fetch_fred: the answer of FRED is a status and, when the status is      *)
(* "ok", the list of observations; a "." value is already NaN here         *)
(* (pd.to_numeric(errors="coerce")).                                       *)
(***************************************************************************)
Statuses == {"ok", "timeout", "http_error", "malformed"}
Response(st, obs) == [status |-> st, obs |-> obs]
\* one requests.get call: the series asked for and how FRED answered
Request(id, st) == [series_id |-> id, status |-> st]

\* df.set_index("date").sort_index()
sort_index(obs) ==
    LET ds == SortedSeq(Dates(obs))
    IN  [i \in 1..Len(ds) |-> Obs(ds[i], At(obs, ds[i]))]

\* (mutant) a failed request answered with an empty frame instead of raising
fetch_fred_swallow(resp) ==
    IF resp.status # "ok" \/ resp.obs = <<>> THEN [raised |-> "", value |-> <<>>]
    ELSE [raised |-> "", value |-> sort_index(resp.obs)]

\* requests.get raises on a timeout, raise_for_status on a non-2xx status,
\* r.json() / the column access on a malformed payload
fetch_fred(resp) ==
    IF resp.status # "ok" THEN [raised |-> "FetchFailed", value |-> <<>>]
    ELSE IF resp.obs = <<>> THEN [raised |-> "", value |-> <<>>]
    ELSE [raised |-> "", value |-> sort_index(resp.obs)]

(***************************************************************************)
(* monthlyize: df.resample("M") has one bin per calendar month from the    *)
(* month of the first index entry to the month of the last one, labelled   *)
(* by the month end; a bin is aggregated by GroupBy.last (the last         *)
(* non-null entry) or GroupBy.mean (the mean of the non-null entries).     *)
(***************************************************************************)
BinValues(df, m) ==
    LET InMonth(o) == MonthOf(o.date) = m
        sel == SelectSeq(df, InMonth)
    IN  [i \in 1..Len(sel) |-> sel[i].value]

\* (mutant) the last entry of the bin, null or not
GroupLast_raw(vals) == IF vals = <<>> THEN NaN ELSE vals[Len(vals)]

RECURSIVE GroupLast(_)
GroupLast(vals) ==
    IF vals = <<>> THEN NaN
    ELSE IF ~IsNaN(vals[Len(vals)]) THEN vals[Len(vals)]
    ELSE GroupLast(SubSeq(vals, 1, Len(vals) - 1))

RECURSIVE SumValid(_)
SumValid(vals) ==
    IF vals = <<>> THEN Num(0)
    ELSE IF IsNaN(vals[1]) THEN SumValid(Tail(vals))
    ELSE RAdd(vals[1], SumValid(Tail(vals)))

RECURSIVE CountValid(_)
CountValid(vals) ==
    IF vals = <<>> THEN 0
    ELSE (IF IsNaN(vals[1]) THEN 0 ELSE 1) + CountValid(Tail(vals))

\* (mutant) mean(skipna=False): a null entry makes the mean null
GroupMean_strict(vals) ==
    IF vals = <<>> \/ CountValid(vals) < Len(vals) THEN NaN
    ELSE RDiv(SumValid(vals), Num(Len(vals)))

GroupMean(vals) ==
    IF CountValid(vals) = 0 THEN NaN
    ELSE RDiv(SumValid(vals), Num(CountValid(vals)))

\* df.resample("M").mean() / df.resample("M").last()
resample(df, how) ==
    LET lo == MonthOf(df[1].date)
        hi == MonthOf(df[Len(df)].date)
    IN  [i \in 1..(hi - lo + 1) |->
            Obs(MonthEnd(lo + i - 1),
                IF how = "mean" THEN GroupMean(BinValues(df, lo + i - 1))
                ELSE GroupLast(BinValues(df, lo + i - 1)))]

monthlyize(df, how) ==
    IF df = <<>> THEN df
    ELSE IF how = "mean" THEN resample(df, "mean")
    ELSE resample(df, "last")

(***************************************************************************)
(* cpi_yoy_from_index.                                                     *)
(***************************************************************************)
\* pd.infer_freq on a sorted index: it raises on fewer than 3 dates, is
\* "MS" / "M" for the starts / ends of consecutive months, and anything else
\* ("D", "2MS", None, ...) is "other".  (pandas 2.2 names the month end
\* "ME": the caller then resamples a month-end index onto itself.)
infer_freq(df) ==
    IF Len(df) < 3 THEN "ValueError"
    ELSE IF \A i \in 1..(Len(df) - 1) :
                MonthOf(df[i + 1].date) = MonthOf(df[i].date) + 1
         THEN IF \A i \in 1..Len(df) : IsMonthStart(df[i].date) THEN "MS"
              ELSE IF \A i \in 1..Len(df) : IsMonthEnd(df[i].date) THEN "M"
              ELSE "other"
         ELSE "other"

\* fillna(method="pad"): pct_change's default fill_method
ffill(vals) ==
    LET f[i \in 0..Len(vals)] ==
            IF i = 0 THEN NaN
            ELSE IF ~IsNaN(vals[i]) THEN vals[i] ELSE f[i - 1]
    IN  [i \in 1..Len(vals) |-> f[i]]

\* Series.pct_change(periods): pad, then data / data.shift(periods) - 1
pct_change(vals, periods) ==
    LET data == ffill(vals)
    IN  [i \in 1..Len(vals) |->
            IF i <= periods THEN NaN
            ELSE RSub(RDiv(data[i], data[i - periods]), Num(1))]

cpi_yoy_from_index(idx) ==
    IF idx = <<>> THEN [raised |-> "", value |-> <<>>]
    ELSE IF infer_freq(idx) = "ValueError"
    THEN [raised |-> "ValueError", value |-> <<>>]
    ELSE LET m == IF infer_freq(idx) \notin {"M", "MS"}
                  THEN resample(idx, "last") ELSE idx
             pc12 == pct_change(Values(m), YoYPeriods)
         IN  [raised |-> "",
              value |-> [i \in 1..Len(m) |->
                            Obs(m[i].date, RMul(pc12[i], Num(100)))]]

(***************************************************************************)
(* Inputs.  A monthly series has one observation per month from month 0,   *)
(* on the month start (as FRED dates CPIAUCSL and UNRATE) or the month     *)
(* end, the index values 100, 102, ... and up to MaxMissing "." entries.   *)
(* An irregular series has up to MaxObs observations on any days of the    *)
(* first GenMonths months, each a number or ".".                           *)
(***************************************************************************)
IndexValue(i) == Num(100 + 2 * (i - 1))

MonthlySeries(first, day, len, miss) ==
    [i \in 1..len |->
        Obs((first + i - 1) * DaysPerMonth + day,
            IF i \in miss THEN NaN ELSE IndexValue(i))]

MonthlyInputs ==
    {MonthlySeries(0, day, len, miss) :
        day \in {0, DaysPerMonth - 1},
        len \in 0..MaxCpiLen,
        miss \in {S \in SUBSET (1..MaxCpiLen) : Cardinality(S) <= MaxMissing}}

DayValue(d) == Num(3 * d + 1)

IrregularSeries(days, miss) ==
    LET ds == SortedSeq(days)
    IN  [i \in 1..Len(ds) |->
            Obs(ds[i], IF ds[i] \in miss THEN NaN ELSE DayValue(ds[i]))]

IrregularInputs ==
    UNION {{IrregularSeries(days, miss) : miss \in SUBSET days} :
              days \in {S \in SUBSET (0..(GenMonths * DaysPerMonth - 1)) :
                           Cardinality(S) <= MaxObs}}

HelperInputs == MonthlyInputs \cup IrregularInputs

(***************************************************************************)
(* One call of a helper on one input.                                      *)
(***************************************************************************)
NoResult == [raised |-> "", value |-> <<>>]
NoKpi == [shown |-> "none", cpi_yoy |-> <<"", 0>>, unemployment |-> <<"", 0>>,
         real10y |-> <<"", 0>>]
NoSheets == [written |-> FALSE, macro_panel |-> <<>>, cpi_index |-> <<>>,
             unemployment |-> <<>>, real10y |-> <<>>]
NoCharts == [cpi_yoy |-> <<>>, unemployment |-> <<>>, real10y |-> <<>>]

PassIdle ==
    /\ pc = "start" /\ secret = "absent" /\ api_key = "" /\ smooth_ma = FALSE
    /\ requests = <<>> /\ err = "" /\ ui = <<>>
    /\ cpi_idx = <<>> /\ cpi_m = <<>> /\ cpi_yoy = <<>>
    /\ unrate = <<>> /\ unrate_m = <<>>
    /\ real10_daily = <<>> /\ real10_m = <<>>
    /\ panel = <<>> /\ display_df = <<>>
    /\ kpi = NoKpi /\ charts = NoCharts /\ xlsx = NoSheets

HelperInit ==
    /\ PassIdle
    /\ fn = "none"
    /\ arg \in HelperInputs
    /\ ret = NoResult

CallMonthlyizeLast ==
    /\ fn = "none"
    /\ fn' = "monthlyize_last"
    /\ ret' = [raised |-> "", value |-> monthlyize(arg, "last")]
    /\ UNCHANGED <<arg, passVars>>

CallMonthlyizeMean ==
    /\ fn = "none"
    /\ fn' = "monthlyize_mean"
    /\ ret' = [raised |-> "", value |-> monthlyize(arg, "mean")]
    /\ UNCHANGED <<arg, passVars>>

CallCpiYoy ==
    /\ fn = "none"
    /\ fn' = "cpi_yoy_from_index"
    /\ ret' = cpi_yoy_from_index(arg)
    /\ UNCHANGED <<arg, passVars>>

HelperNext == CallMonthlyizeLast \/ CallMonthlyizeMean \/ CallCpiYoy

HelperSpec == HelperInit /\ [][HelperNext]_vars

(***************************************************************************)
(* Properties of the helpers (checked under HelperSpec).                   *)
(***************************************************************************)
Months(df) == {MonthOf(df[i].date) : i \in 1..Len(df)}
RowsOfMonth(df, m) == {i \in 1..Len(df) : MonthOf(df[i].date) = m}
PresentOfMonth(df, m) == {i \in RowsOfMonth(df, m) : ~IsNaN(df[i].value)}

\* a Monthly Series of the data model: month ends of consecutive months
IsMonthlySeries(df) ==
    /\ \A i \in 1..Len(df) : IsMonthEnd(df[i].date)
    /\ \A i \in 1..(Len(df) - 1) :
          MonthOf(df[i + 1].date) = MonthOf(df[i].date) + 1

\* (cur / prev - 1) * 100 of two present values
YoYOf(cur, prev) == RMul(RSub(RDiv(cur, prev), Num(1)), Num(100))

\* C2 (as claimed): on a Monthly Series of any length cpi_yoy_from_index
\* returns without error; the first 12 entries of the result are missing,
\* and entry i >= 12 (counted from 0) is (S[i]/S[i-12] - 1) * 100 when S[i]
\* and S[i-12] are both present and missing otherwise.
C2_YoYAsClaimed ==
    (fn = "cpi_yoy_from_index" /\ IsMonthlySeries(arg)) =>
        /\ ret.raised = ""
        /\ Len(ret.value) = Len(arg)
        /\ \A i \in 1..Len(arg) :
              IF /\ i > YoYPeriods
                 /\ ~IsNaN(arg[i].value)
                 /\ ~IsNaN(arg[i - YoYPeriods].value)
              THEN ret.value[i].value
                      = YoYOf(arg[i].value, arg[i - YoYPeriods].value)
              ELSE IsNaN(ret.value[i].value)

\* C2, first half alone: no error on a Monthly Series of any length
C2_NoErrorAsClaimed ==
    (fn = "cpi_yoy_from_index" /\ IsMonthlySeries(arg)) => ret.raised = ""

\* C2, second half alone: where the call returns, an entry whose S[i] or
\* S[i-12] is missing is missing
C2_MissingAsClaimed ==
    (fn = "cpi_yoy_from_index" /\ IsMonthlySeries(arg) /\ ret.raised = "") =>
        \A i \in 1..Len(arg) :
            (i > YoYPeriods /\ (IsNaN(arg[i].value)
                                \/ IsNaN(arg[i - YoYPeriods].value)))
                => IsNaN(ret.value[i].value)

\* the row of a monthly result that lies in month m
RowOfMonth(df, m) == df[CHOOSE i \in 1..Len(df) : MonthOf(df[i].date) = m]

\* C3 (as claimed): mode "last" gives exactly one row per calendar month
\* present in the input, and its value is that of the chronologically last
\* input observation of the month, also when that observation is missing.
C3_LastAsClaimed ==
    fn = "monthlyize_last" =>
        \A m \in Months(arg) :
            /\ Cardinality(RowsOfMonth(ret.value, m)) = 1
            /\ RowOfMonth(ret.value, m).value
                   = arg[SetMax(RowsOfMonth(arg, m))].value

\* C3 (amended): mode "last" gives exactly one row per calendar month
\* present in the input, and its value is that of the chronologically last
\* non-missing input observation of the month, missing when the month has
\* none.
C3_LastNonMissing ==
    fn = "monthlyize_last" =>
        \A m \in Months(arg) :
            /\ Cardinality(RowsOfMonth(ret.value, m)) = 1
            /\ RowOfMonth(ret.value, m).value
                   = IF PresentOfMonth(arg, m) = {} THEN NaN
                     ELSE arg[SetMax(PresentOfMonth(arg, m))].value

\* a month whose last observation is missing after a present one, and a
\* second observed month, both answered by mode "last"
C3_Witness ==
    /\ fn = "monthlyize_last"
    /\ Cardinality(Months(arg)) >= 2
    /\ \E m \in Months(arg) :
          /\ PresentOfMonth(arg, m) # {}
          /\ IsNaN(arg[SetMax(RowsOfMonth(arg, m))].value)
          /\ ~IsNaN(RowOfMonth(ret.value, m).value)

RECURSIVE SumAt(_, _)
SumAt(df, I) ==
    IF I = {} THEN Num(0)
    ELSE LET i == CHOOSE j \in I : TRUE
         IN  RAdd(df[i].value, SumAt(df, I \ {i}))

\* C9: mode "mean" gives, for each calendar month of the input's range,
\* the arithmetic mean of the month's non-missing values, or a missing
\* value when the month has none; an empty input gives an empty result and
\* no error.
C9_MeanOfPresent ==
    fn = "monthlyize_mean" =>
        /\ ret.raised = ""
        /\ arg = <<>> => ret.value = <<>>
        /\ arg # <<>> =>
              /\ IsSorted(ret.value)
              /\ Dates(ret.value)
                    = {MonthEnd(m) : m \in SetMin(Months(arg))..SetMax(Months(arg))}
              /\ \A i \in 1..Len(ret.value) :
                    LET P == PresentOfMonth(arg, MonthOf(ret.value[i].date))
                    IN  IF P = {} THEN IsNaN(ret.value[i].value)
                        ELSE /\ ~IsNaN(ret.value[i].value)
                             /\ RMul(ret.value[i].value, Num(Cardinality(P)))
                                   = SumAt(arg, P)

\* a month with two present values, and a month whose only observations
\* are missing, both answered by mode "mean"
C9_Witness ==
    /\ fn = "monthlyize_mean"
    /\ \E m \in Months(arg) : Cardinality(PresentOfMonth(arg, m)) >= 2
    /\ \E m \in Months(arg) :
          /\ PresentOfMonth(arg, m) = {}
          /\ IsNaN(RowOfMonth(ret.value, m).value)

\* the empty input answered by mode "mean"
C9_WitnessEmpty == fn = "monthlyize_mean" /\ arg = <<>> /\ ret.value = <<>>

(***************************************************************************)
(* The render pass: panel assembly, display copy, KPI row, charts, export. *)
(***************************************************************************)
Row(d, a, b, c, e) ==
    [date |-> d, CPI |-> a, CPI_YoY |-> b, Unemployment |-> c, Real10Y |-> e]
Columns == {"CPI", "CPI_YoY", "Unemployment", "Real10Y"}
RowDates(p) == {p[i].date : i \in 1..Len(p)}

RECURSIVE Distinct(_)
\* a sequence without its repeated entries, in order of first appearance
Distinct(s) ==
    IF s = <<>> THEN <<>>
    ELSE LET NotHead(x) == x # s[1]
         IN  <<s[1]>> \o Distinct(SelectSeq(Tail(s), NotHead))

DateSeq(df) == [i \in 1..Len(df) |-> df[i].date]

\* the row index of pd.concat(axis=1): the sorted union when every input
\* has a DatetimeIndex; an empty frame or Series has no DatetimeIndex, and
\* with one among the inputs the union keeps the order of appearance
union_indexes(a, b, c, e) ==
    IF a # <<>> /\ b # <<>> /\ c # <<>> /\ e # <<>>
    THEN SortedSeq(Dates(a) \cup Dates(b) \cup Dates(c) \cup Dates(e))
    ELSE Distinct(DateSeq(a) \o DateSeq(b) \o DateSeq(c) \o DateSeq(e))

\* pd.concat([...], axis=1): outer join on the index
concat(a, b, c, e) ==
    LET ix == union_indexes(a, b, c, e)
    IN  [i \in 1..Len(ix) |->
            Row(ix[i], At(a, ix[i]), At(b, ix[i]), At(c, ix[i]), At(e, ix[i]))]

AllMissing(r) == \A col \in Columns : IsNaN(r[col])
AnyMissing(r) == \E col \in Columns : IsNaN(r[col])

\* panel.dropna(how="all")
dropna_all(p) == LET Keep(r) == ~AllMissing(r) IN SelectSeq(p, Keep)
\* panel.dropna()
dropna(p) == LET Keep(r) == ~AnyMissing(r) IN SelectSeq(p, Keep)

\* (mutant) dropna() in place of dropna(how="all")
assemble_panel_any(a, b, c, e) == dropna(concat(a, b, c, e))

\* lines 118-119
assemble_panel(a, b, c, e) == dropna_all(concat(a, b, c, e))

\* (mutant) rolling(RollWindow, min_periods=1): the mean of what the window has
rolling_mean_partial(p, col, i) ==
    LET lo == IF i < RollWindow THEN 1 ELSE i - RollWindow + 1
        w == [k \in 1..(i - lo + 1) |-> p[lo + k - 1][col]]
    IN  GroupMean(w)

\* col.rolling(RollWindow).mean() at row i: missing unless the window of the
\* last RollWindow rows is full and has no missing value
rolling_mean(p, col, i) ==
    IF i < RollWindow \/ \E k \in 0..(RollWindow - 1) : IsNaN(p[i - k][col])
    THEN NaN
    ELSE LET acc[k \in 0..RollWindow] ==
                 IF k = 0 THEN Num(0) ELSE RAdd(acc[k - 1], p[i - k + 1][col])
         IN  RDiv(acc[RollWindow], Num(RollWindow))

smooth(p) ==
    [i \in 1..Len(p) |->
        Row(p[i].date, rolling_mean(p, "CPI", i), rolling_mean(p, "CPI_YoY", i),
            rolling_mean(p, "Unemployment", i), rolling_mean(p, "Real10Y", i))]

\* (mutant) display_df = panel without .copy(): both names are one frame
display_transform_alias(p, flag) ==
    [panel |-> IF flag THEN smooth(p) ELSE p,
     display_df |-> IF flag THEN smooth(p) ELSE p]

\* lines 122-125: the pair (panel, display_df) after the display transform;
\* display_df is a copy, so the column assignments leave panel alone
display_transform(p, flag) ==
    [panel |-> p, display_df |-> IF flag THEN smooth(p) ELSE p]

\* f"{value:,.2f}": the value in hundredths, rounded half to even
round2(v) ==
    LET n == 200 * v[1]
        d == 2 * v[2]
        q == n \div d
        r == n % d
    IN  IF 2 * r < d THEN q
        ELSE IF 2 * r > d THEN q + 1
        ELSE IF q % 2 = 0 THEN q ELSE q + 1

\* metric_card's value text
metric_text(v) == IF IsNaN(v) THEN <<"-", 0>> ELSE <<"pct", round2(v)>>
Blank == <<"", 0>>

\* lines 128-139
kpi_row(p) ==
    LET latest == dropna(p)
    IN  IF latest = <<>>
        THEN [shown |-> "info", cpi_yoy |-> Blank, unemployment |-> Blank,
              real10y |-> Blank]
        ELSE LET last == latest[Len(latest)]
             IN  [shown |-> "cards",
                  cpi_yoy |-> metric_text(last.CPI_YoY),
                  unemployment |-> metric_text(last.Unemployment),
                  real10y |-> metric_text(last.Real10Y)]

\* display_df[[col]].dropna(): the points line_chart plots; none means the
\* "No data to display" message
chart_points(d, col) ==
    LET Keep(r) == ~IsNaN(r[col])
        sel == SelectSeq(d, Keep)
    IN  [i \in 1..Len(sel) |-> Obs(sel[i].date, sel[i][col])]

(***************************************************************************)
(* What FRED may answer in a render pass.                                  *)
(***************************************************************************)
Failures == {Response(st, <<>>) : st \in Statuses \ {"ok"}}

CpiResponses ==
    Failures \cup
    {Response("ok", MonthlySeries(0, day, len, {})) :
        day \in {0, DaysPerMonth - 1}, len \in 0..MaxCpiLen}

UnrateResponses ==
    Failures \cup
    {Response("ok", MonthlySeries(first, 0, len, miss)) :
        first \in {0, YoYPeriods}, len \in 0..MaxShort, miss \in {{}, {1}}}

\* DFII10 is daily: consecutive days from the start of a month
DailySeries(first, len, miss) ==
    [i \in 1..len |->
        Obs(MonthStart(first) + i - 1,
            IF i \in miss THEN NaN ELSE DayValue(i))]

Real10Responses ==
    Failures \cup
    {Response("ok", DailySeries(first, len, IF lastMissing THEN {len} ELSE {})) :
        first \in {0, YoYPeriods}, len \in 0..MaxShort, lastMissing \in BOOLEAN}

(***************************************************************************)
(* The script, top to bottom; Streamlit runs it again on every interaction.*)
(***************************************************************************)
HelperIdle == fn = "none" /\ arg = <<>> /\ ret = NoResult

Init ==
    /\ pc = "start"
    /\ secret \in {"absent", "", "key"}
    /\ api_key = "" /\ smooth_ma = FALSE
    /\ requests = <<>> /\ err = "" /\ ui = <<>>
    /\ cpi_idx = <<>> /\ cpi_m = <<>> /\ cpi_yoy = <<>>
    /\ unrate = <<>> /\ unrate_m = <<>>
    /\ real10_daily = <<>> /\ real10_m = <<>>
    /\ panel = <<>> /\ display_df = <<>>
    /\ kpi = NoKpi /\ charts = NoCharts /\ xlsx = NoSheets
    /\ HelperIdle

frames == <<cpi_idx, cpi_m, cpi_yoy, unrate, unrate_m, real10_daily, real10_m>>
outputs == <<panel, display_df, kpi, charts, xlsx>>

\* (mutant) the warning without st.stop()
CheckCredential_nostop ==
    /\ pc = "start"
    /\ api_key' = (IF secret = "absent" THEN "" ELSE secret)
    /\ ui' = IF api_key' = "" THEN <<"title", "caption", "warning">>
             ELSE <<"title", "caption">>
    /\ pc' = "sidebar"
    /\ UNCHANGED <<secret, smooth_ma, requests, err, frames, outputs, fn, arg, ret>>

\* lines 20-39: page set-up, the credential, st.warning and st.stop
CheckCredential ==
    /\ pc = "start"
    /\ api_key' = (IF secret = "absent" THEN "" ELSE secret)
    /\ IF api_key' = ""
       THEN /\ ui' = <<"title", "caption", "warning">>
            /\ pc' = "stopped"
       ELSE /\ ui' = <<"title", "caption">>
            /\ pc' = "sidebar"
    /\ UNCHANGED <<secret, smooth_ma, requests, err, frames, outputs, fn, arg, ret>>

\* lines 41-45
Sidebar ==
    /\ pc = "sidebar"
    /\ smooth_ma' \in BOOLEAN
    /\ ui' = Append(ui, "sidebar")
    /\ pc' = "fetch_cpi"
    /\ UNCHANGED <<secret, api_key, requests, err, frames, outputs, fn, arg, ret>>

\* line 105
FetchCpi ==
    /\ pc = "fetch_cpi"
    /\ \E resp \in CpiResponses :
          LET r == fetch_fred(resp)
          IN  /\ requests' = Append(requests, Request("CPIAUCSL", resp.status))
              /\ IF r.raised # ""
                 THEN /\ err' = r.raised /\ pc' = "failed"
                      /\ UNCHANGED cpi_idx
                 ELSE /\ cpi_idx' = r.value /\ pc' = "derive_cpi"
                      /\ UNCHANGED err
    /\ UNCHANGED <<secret, api_key, smooth_ma, ui, cpi_m, cpi_yoy, unrate,
                   unrate_m, real10_daily, real10_m, outputs, fn, arg, ret>>

\* lines 106-107
DeriveCpi ==
    /\ pc = "derive_cpi"
    /\ cpi_m' = monthlyize(cpi_idx, "last")
    /\ LET y == cpi_yoy_from_index(cpi_idx)
       IN  IF y.raised # ""
           THEN /\ err' = y.raised /\ pc' = "failed"
                /\ UNCHANGED cpi_yoy
           ELSE /\ cpi_yoy' = y.value /\ pc' = "fetch_unrate"
                /\ UNCHANGED err
    /\ UNCHANGED <<secret, api_key, smooth_ma, requests, ui, cpi_idx, unrate,
                   unrate_m, real10_daily, real10_m, outputs, fn, arg, ret>>

\* lines 110-111
FetchUnrate ==
    /\ pc = "fetch_unrate"
    /\ \E resp \in UnrateResponses :
          LET r == fetch_fred(resp)
          IN  /\ requests' = Append(requests, Request("UNRATE", resp.status))
              /\ IF r.raised # ""
                 THEN /\ err' = r.raised /\ pc' = "failed"
                      /\ UNCHANGED <<unrate, unrate_m>>
                 ELSE /\ unrate' = r.value
                      /\ unrate_m' = monthlyize(r.value, "last")
                      /\ pc' = "fetch_real10"
                      /\ UNCHANGED err
    /\ UNCHANGED <<secret, api_key, smooth_ma, ui, cpi_idx, cpi_m, cpi_yoy,
                   real10_daily, real10_m, outputs, fn, arg, ret>>

\* lines 114-115
FetchReal10 ==
    /\ pc = "fetch_real10"
    /\ \E resp \in Real10Responses :
          LET r == fetch_fred(resp)
          IN  /\ requests' = Append(requests, Request("DFII10", resp.status))
              /\ IF r.raised # ""
                 THEN /\ err' = r.raised /\ pc' = "failed"
                      /\ UNCHANGED <<real10_daily, real10_m>>
                 ELSE /\ real10_daily' = r.value
                      /\ real10_m' = monthlyize(r.value, "mean")
                      /\ pc' = "combine"
                      /\ UNCHANGED err
    /\ UNCHANGED <<secret, api_key, smooth_ma, ui, cpi_idx, cpi_m, cpi_yoy,
                   unrate, unrate_m, outputs, fn, arg, ret>>

\* lines 118-119
Combine ==
    /\ pc = "combine"
    /\ panel' = assemble_panel(cpi_m, cpi_yoy, unrate_m, real10_m)
    /\ pc' = "display"
    /\ UNCHANGED <<secret, api_key, smooth_ma, requests, err, ui, frames,
                   display_df, kpi, charts, xlsx, fn, arg, ret>>

\* lines 122-125
Display ==
    /\ pc = "display"
    /\ LET t == display_transform(panel, smooth_ma)
       IN  panel' = t.panel /\ display_df' = t.display_df
    /\ pc' = "kpi"
    /\ UNCHANGED <<secret, api_key, smooth_ma, requests, err, ui, frames,
                   kpi, charts, xlsx, fn, arg, ret>>

\* lines 128-139
KpiRow ==
    /\ pc = "kpi"
    /\ kpi' = kpi_row(panel)
    /\ ui' = Append(ui, IF kpi'.shown = "info" THEN "no_data_info" ELSE "metrics")
    /\ pc' = "charts"
    /\ UNCHANGED <<secret, api_key, smooth_ma, requests, err, frames,
                   panel, display_df, charts, xlsx, fn, arg, ret>>

\* lines 142-149
Charts ==
    /\ pc = "charts"
    /\ charts' = [cpi_yoy |-> chart_points(display_df, "CPI_YoY"),
                  unemployment |-> chart_points(display_df, "Unemployment"),
                  real10y |-> chart_points(display_df, "Real10Y")]
    /\ ui' = Append(ui, "charts")
    /\ pc' = "download"
    /\ UNCHANGED <<secret, api_key, smooth_ma, requests, err, frames,
                   panel, display_df, kpi, xlsx, fn, arg, ret>>

\* lines 152-165
Download ==
    /\ pc = "download"
    /\ xlsx' = [written |-> TRUE, macro_panel |-> panel, cpi_index |-> cpi_m,
                unemployment |-> unrate_m, real10y |-> real10_m]
    /\ ui' = Append(ui, "download_button")
    /\ pc' = "done"
    /\ UNCHANGED <<secret, api_key, smooth_ma, requests, err, frames,
                   panel, display_df, kpi, charts, fn, arg, ret>>

\* an interaction (or a changed secret) starts the next render pass: every
\* name of the script is computed again from scratch
Rerun ==
    /\ pc \in {"stopped", "failed", "done"}
    /\ pc' = "start"
    /\ secret' \in {"absent", "", "key"}
    /\ api_key' = "" /\ smooth_ma' = FALSE
    /\ requests' = <<>> /\ err' = "" /\ ui' = <<>>
    /\ cpi_idx' = <<>> /\ cpi_m' = <<>> /\ cpi_yoy' = <<>>
    /\ unrate' = <<>> /\ unrate_m' = <<>>
    /\ real10_daily' = <<>> /\ real10_m' = <<>>
    /\ panel' = <<>> /\ display_df' = <<>>
    /\ kpi' = NoKpi /\ charts' = NoCharts /\ xlsx' = NoSheets
    /\ UNCHANGED <<fn, arg, ret>>

Next ==
    \/ CheckCredential
    \/ Sidebar
    \/ FetchCpi
    \/ DeriveCpi
    \/ FetchUnrate
    \/ FetchReal10
    \/ Combine
    \/ Display
    \/ KpiRow
    \/ Charts
    \/ Download
    \/ Rerun

Spec == Init /\ [][Next]_vars

(***************************************************************************)
(* Properties of the render pass (checked under Spec).                     *)
(***************************************************************************)
Assembled == pc \in {"display", "kpi", "charts", "download", "done"}
Transformed == pc \in {"kpi", "charts", "download", "done"}
NothingFetched ==
    /\ cpi_idx = <<>> /\ cpi_m = <<>> /\ cpi_yoy = <<>>
    /\ unrate = <<>> /\ unrate_m = <<>>
    /\ real10_daily = <<>> /\ real10_m = <<>>
NothingRendered ==
    /\ panel = <<>> /\ display_df = <<>>
    /\ kpi = NoKpi /\ charts = NoCharts /\ xlsx = NoSheets
Emitted(e) == \E i \in 1..Len(ui) : ui[i] = e

\* C1: in a pass whose credential is absent or empty the render halts
\* after the instructional message: no request is issued for any series,
\* nothing is fetched, and no panel, display copy, metric, chart or export
\* is produced.
C1_NoCredentialNoData ==
    secret \in {"absent", ""} =>
        /\ pc \in {"start", "stopped"}
        /\ requests = <<>>
        /\ NothingFetched
        /\ NothingRendered
        /\ pc = "stopped" => (api_key = "" /\ ui = <<"title", "caption", "warning">>)

\* a pass halted on an empty credential, the warning shown
C1_Witness == pc = "stopped" /\ secret = "" /\ Emitted("warning")

InputDates == Dates(cpi_m) \cup Dates(cpi_yoy) \cup Dates(unrate_m) \cup Dates(real10_m)
PresentAt(df, d) == \E j \in 1..Len(df) : df[j].date = d /\ ~IsNaN(df[j].value)
\* the cell of an input at date d is the input's value there, and missing
\* when the input has no such date
CellOf(cell, df, d) ==
    /\ \A j \in 1..Len(df) : df[j].date = d => cell = df[j].value
    /\ d \notin Dates(df) => cell = NaN

\* C4 (as claimed): every row key of the panel is a month-end date and the
\* values of one calendar month sit in one row.
C4_RowsAreMonthEnds ==
    Assembled =>
        /\ \A i \in 1..Len(panel) : IsMonthEnd(panel[i].date)
        /\ \A i, j \in 1..Len(panel) :
              MonthOf(panel[i].date) = MonthOf(panel[j].date) => i = j

\* C5: the rows of the panel are the dates of the four inputs without
\* those on which every input is missing; no date is there twice, every
\* row has a present value, and a cell is its input's value at the row's
\* date, missing when the input does not cover the date.
C5_OuterJoinPruned ==
    Assembled =>
        /\ RowDates(panel)
              = {d \in InputDates :
                    \/ PresentAt(cpi_m, d) \/ PresentAt(cpi_yoy, d)
                    \/ PresentAt(unrate_m, d) \/ PresentAt(real10_m, d)}
        /\ \A i, j \in 1..Len(panel) : panel[i].date = panel[j].date => i = j
        /\ \A i \in 1..Len(panel) :
              /\ \E col \in Columns : ~IsNaN(panel[i][col])
              /\ CellOf(panel[i].CPI, cpi_m, panel[i].date)
              /\ CellOf(panel[i].CPI_YoY, cpi_yoy, panel[i].date)
              /\ CellOf(panel[i].Unemployment, unrate_m, panel[i].date)
              /\ CellOf(panel[i].Real10Y, real10_m, panel[i].date)

\* a panel of inputs with different ranges: a kept row with a missing and a
\* present cell, a date shared by two inputs, and a dropped all-missing date
C5_Witness ==
    /\ Assembled
    /\ \E i \in 1..Len(panel) : AnyMissing(panel[i])
    /\ \E d \in Dates(unrate_m) \cap Dates(real10_m) : d \in RowDates(panel)
    /\ InputDates \ RowDates(panel) # {}
    /\ Dates(cpi_m) # Dates(unrate_m)

FailedAt(i) == requests[i].status # "ok"
TimesRequested(id) == Cardinality({i \in 1..Len(requests) : requests[i].series_id = id})

\* C6: no series is requested twice in a pass, and once a request has
\* failed the pass has ended in failure: the failed request is the last
\* one of the pass, and no panel, display copy, metric, chart or export
\* exists.
C6_FetchFailureEndsPass ==
    /\ \A id \in {"CPIAUCSL", "UNRATE", "DFII10"} : TimesRequested(id) <= 1
    /\ \A i \in 1..Len(requests) :
          FailedAt(i) =>
              /\ i = Len(requests)
              /\ pc = "failed" /\ err = "FetchFailed"
              /\ NothingRendered
              /\ ~Emitted("metrics") /\ ~Emitted("charts")
              /\ ~Emitted("download_button")

\* the third request failed after two series had been fetched
C6_Witness ==
    /\ pc = "failed"
    /\ Len(requests) = 3 /\ FailedAt(3)
    /\ cpi_m # <<>> /\ unrate_m # <<>>

\* C7: the display transform leaves the canonical panel as assembled, for
\* either value of the flag, and the export's combined sheet and per-series
\* sheets hold the unsmoothed frames.
C7_PanelNotSmoothed ==
    /\ Transformed => panel = assemble_panel(cpi_m, cpi_yoy, unrate_m, real10_m)
    /\ xlsx.written =>
          /\ xlsx.macro_panel = assemble_panel(cpi_m, cpi_yoy, unrate_m, real10_m)
          /\ xlsx.cpi_index = cpi_m
          /\ xlsx.unemployment = unrate_m
          /\ xlsx.real10y = real10_m

\* an export written in a pass whose display copy holds smoothed values
C7_Witness ==
    /\ xlsx.written /\ smooth_ma
    /\ display_df # panel
    /\ \E i \in 1..Len(display_df) : ~IsNaN(display_df[i].CPI)

\* C8: with the flag off the display copy equals the panel; with it on
\* every cell of every column is the mean of the column's cells in this
\* row and the two rows before it, missing in the first two rows (and
\* wherever one of the three cells is missing).
C8_TrailingMean ==
    Transformed =>
        /\ ~smooth_ma => display_df = panel
        /\ smooth_ma =>
              /\ Len(display_df) = Len(panel)
              /\ \A i \in 1..Len(panel) :
                    /\ display_df[i].date = panel[i].date
                    /\ \A col \in Columns :
                          IF /\ i >= 3
                             /\ ~IsNaN(panel[i][col])
                             /\ ~IsNaN(panel[i - 1][col])
                             /\ ~IsNaN(panel[i - 2][col])
                          THEN RMul(display_df[i][col], Num(3))
                                  = RAdd(panel[i - 2][col],
                                         RAdd(panel[i - 1][col], panel[i][col]))
                          ELSE IsNaN(display_df[i][col])

\* a smoothed column: present in the panel's first rows, missing in the
\* first two rows of the display copy and a mean from the third row on
C8_Witness ==
    /\ Transformed /\ smooth_ma
    /\ Len(panel) >= 4
    /\ ~IsNaN(panel[1].CPI) /\ ~IsNaN(panel[2].CPI)
    /\ IsNaN(display_df[1].CPI) /\ IsNaN(display_df[2].CPI)
    /\ display_df[3].CPI = Num(102) /\ display_df[4].CPI = Num(104)

MetricColumns == {"CPI_YoY", "Unemployment", "Real10Y"}
KpiShown == pc \in {"charts", "download", "done"}

\* C10 (as claimed): whenever the panel has a row with a present value for
\* a metric's column the metric cards are shown, not the "No data
\* available" message.
C10_CardsWhenMetricPresent ==
    KpiShown =>
        ((\E i \in 1..Len(panel) : \E col \in MetricColumns : ~IsNaN(panel[i][col]))
            => kpi.shown = "cards")

\* what the KPI row does: the cards are shown exactly when the panel has a
\* row with no missing column, and then show the last such row
C10_CardsOfLastCompleteRow ==
    KpiShown =>
        LET full == {i \in 1..Len(panel) : ~AnyMissing(panel[i])}
        IN  IF full = {} THEN kpi.shown = "info"
            ELSE /\ kpi.shown = "cards"
                 /\ kpi.cpi_yoy = metric_text(panel[SetMax(full)].CPI_YoY)
                 /\ kpi.unemployment = metric_text(panel[SetMax(full)].Unemployment)
                 /\ kpi.real10y = metric_text(panel[SetMax(full)].Real10Y)

====
